---------------------------- MODULE Spec2Model ----------------------------
(***************************************************************************)
(* Model of the balance-accounting core of uuid-entitlement-manager:       *)
(* the users table of src/database.py, the ledger operations on it, the    *)
(* free-grant evaluation of src/utils.py (utils.get_balance), the purchase *)
(* catalog and coupon validation, and the request handlers of src/app.py   *)
(* and of the public and admin blueprints.                                 *)
(*                                                                         *)
(* Every SQL statement (one sqlite transaction) is one atomic step.  A     *)
(* request handler is a process that runs its statements one step at a     *)
(* time, so that handlers of concurrent requests interleave between        *)
(* statements, as separate connections to one sqlite file do.              *)
(***************************************************************************)
EXTENDS Integers, FiniteSets, Sequences, TLC

(***************************************************************************)
(* Bounds of the model.                                                    *)
(***************************************************************************)
MaxIds == 2          \* size of the identifier space uuid4() draws from
NumProcs == 2        \* request handlers that can be in flight together
MaxTime == 3         \* the clock runs over 0..MaxTime
MaxAmount == 2       \* starting balances 0..MaxAmount, changes -MaxAmount..MaxAmount
MaxBalance == 4      \* update_balance is not taken above this balance
MaxDebt == 2         \* ... nor below -MaxDebt
MaxInterval == 2     \* FREE_BALANCE_INTERVAL ranges over 0..MaxInterval
MaxFree == 1         \* FREE_BALANCE ranges over 0..MaxFree

Ids == 1..MaxIds
NoId == 0                         \* a missing identifier ("" or None): `not user_uuid`
AnyId == Ids \cup {NoId}
Procs == 1..NumProcs
Agents == {"ua1", "ua2"}          \* User-Agent strings
Deltas == (-MaxAmount)..MaxAmount
Starts == 0..MaxAmount
Times == 0..MaxTime

\* Optional values: None is the empty set, a value v is {v}.
None == {}
Some(v) == {v}
TheVal(s) == CHOOSE v \in s : TRUE

VARIABLES
    users,    \* the users table: a function from the stored uuids to rows
    now,      \* int(time.time())
    env,      \* the configuration: the environment variables and the catalog
    proc,     \* per request handler: operation, position, arguments, locals
    prev,     \* per client: summary of the call that returned last
    initial,  \* the users table the behaviour started from
    issued    \* the uuids generate_uuid has returned so far

vars == <<users, now, env, proc, prev, initial, issued>>

(***************************************************************************)
(* The users table and the SQL statements on it.                           *)
(***************************************************************************)
Row(ua, b, la) == [user_agent |-> ua, balance |-> b, last_awarded |-> la]

EmptyTable == [i \in {} |-> Row("", 0, 0)]

\* hashlib.sha256(user_agent.encode()).hexdigest(): injective on Agents
hash_user_agent(ua) == <<"sha256", ua>>

\* INSERT INTO users (uuid, user_agent, balance, last_awarded) VALUES (...)
\* on a table that has no row with this uuid
InsertStmt(u, id, row) ==
    [i \in (DOMAIN u) \cup {id} |-> IF i = id THEN row ELSE u[i]]

\* SELECT balance FROM users WHERE uuid = ?  followed by fetchone()
SelectBalance(u, id) ==
    IF id \in DOMAIN u THEN Some(u[id].balance) ELSE None

\* SELECT last_awarded FROM users WHERE uuid = ?  followed by fetchone()
SelectLastAwarded(u, id) ==
    IF id \in DOMAIN u THEN Some(u[id].last_awarded) ELSE None

\* SELECT user_agent FROM users WHERE uuid = ?  followed by fetchone()
SelectUserAgent(u, id) ==
    IF id \in DOMAIN u THEN Some(u[id].user_agent) ELSE None

\* c.rowcount of an UPDATE/DELETE ... WHERE uuid = ?
RowCount(u, id) == IF id \in DOMAIN u THEN 1 ELSE 0

UpdateBalanceStmt_SetAbs(u, id, d) ==
    IF id \in DOMAIN u THEN [u EXCEPT ![id].balance = d] ELSE u

UpdateBalanceStmt_Upsert(u, id, d) ==
    IF id \in DOMAIN u THEN [u EXCEPT ![id].balance = @ + d]
    ELSE IF id = NoId THEN u ELSE InsertStmt(u, id, Row(hash_user_agent(""), d, 0))

UpdateBalanceStmt_Floor(u, id, d) ==
    IF id \in DOMAIN u
    THEN [u EXCEPT ![id].balance = IF @ + d < 0 THEN 0 ELSE @ + d]
    ELSE u

\* UPDATE users SET balance = balance + ? WHERE uuid = ?
UpdateBalanceStmt(u, id, d) ==
    IF id \in DOMAIN u THEN [u EXCEPT ![id].balance = @ + d] ELSE u

UpdateUserAgentStmt_Reset(u, id, h) ==
    IF id \in DOMAIN u THEN [u EXCEPT ![id] = Row(h, 0, @.last_awarded)] ELSE u

\* UPDATE users SET user_agent = ? WHERE uuid = ?
UpdateUserAgentStmt(u, id, h) ==
    IF id \in DOMAIN u THEN [u EXCEPT ![id].user_agent = h] ELSE u

UpdateLastAwardedStmt_Upsert(u, id, t) ==
    IF id \in DOMAIN u THEN [u EXCEPT ![id].last_awarded = t]
    ELSE InsertStmt(u, id, Row(hash_user_agent(""), 0, t))

\* UPDATE users SET last_awarded = ? WHERE uuid = ?
UpdateLastAwardedStmt(u, id, t) ==
    IF id \in DOMAIN u THEN [u EXCEPT ![id].last_awarded = t] ELSE u

ClearAllStmt_ResetRow(u) ==
    [i \in DOMAIN u |-> Row(u[i].user_agent, 0, 0)]

\* UPDATE users SET balance = 0
ClearAllStmt(u) ==
    [i \in DOMAIN u |-> [u[i] EXCEPT !.balance = 0]]

DeleteStmt_Soft(u, id) ==
    IF id \in DOMAIN u THEN [u EXCEPT ![id].balance = 0] ELSE u

\* DELETE FROM users WHERE uuid = ?
DeleteStmt(u, id) ==
    [i \in (DOMAIN u) \ {id} |-> u[i]]

\* DELETE FROM users
DeleteAllStmt(u) == EmptyTable

(***************************************************************************)
(* Request handlers.                                                       *)
(***************************************************************************)
\* the rows of table u whose uuid is in S
Restrict(u, S) == [i \in (DOMAIN u) \cap S |-> u[i]]

\* A handler: the operation it runs (op), where it stands in it (pc), its
\* arguments (user_uuid, balance_change, user_agent, balance_pack,
\* coupon_code), its local variables (balance, last_awarded, current_time,
\* updated_balance, is_valid, discount, balance_to_add), what it returned
\* (ret) and, for the properties, the time the call began (began) and the
\* rows of the table it addresses as they were at that time (pre).
IdleProc ==
    [op |-> "idle", pc |-> "idle", user_uuid |-> NoId, balance_change |-> 0,
     balance |-> 0, last_awarded |-> 0, current_time |-> 0,
     updated_balance |-> None, ret |-> None, began |-> 0, pre |-> EmptyTable,
     user_agent |-> "", balance_pack |-> "", coupon_code |-> "",
     is_valid |-> FALSE, discount |-> 0, balance_to_add |-> 0]

NoPrev == [op |-> "none", user_uuid |-> NoId, balance_change |-> 0,
           current_time |-> 0, last_awarded |-> 0, ret |-> None,
           pre |-> EmptyTable]

Idle(p) == proc[p].pc = "idle"
At(p, o, l) == proc[p].op = o /\ proc[p].pc = l
Done(p, o) == At(p, o, "done")

\* a call of operation o on the rows S begins
Begin(o, id, S) ==
    [IdleProc EXCEPT !.op = o, !.user_uuid = id, !.began = now,
                     !.pre = Restrict(users, S)]

InRange(b) == -MaxDebt <= b /\ b <= MaxBalance

(* database.get_balance, a single SELECT *)
DbGetBalance_Sentinel(u, id) ==
    IF id = NoId THEN 0
    ELSE IF id \in DOMAIN u THEN u[id].balance ELSE -1

DbGetBalance(u, id) ==
    IF id = NoId THEN 0
    ELSE LET result == SelectBalance(u, id)
         IN IF result # None THEN TheVal(result) ELSE 0

\* database.get_last_awarded, a single SELECT
DbGetLastAwarded(u, id) ==
    IF id = NoId THEN 0
    ELSE LET result == SelectLastAwarded(u, id)
         IN IF result # None THEN TheVal(result) ELSE 0

DbUpdateLastAwarded_Noop(u, id, t) == u

\* database.update_last_awarded, a single UPDATE
DbUpdateLastAwarded(u, id, t) ==
    IF id = NoId THEN u ELSE UpdateLastAwardedStmt(u, id, t)

(* database.update_balance, first half: the parameter check, the UPDATE,   *)
(* and the rollback (no row) or commit.                                    *)
UbRejects(id, d) == id = NoId \/ d = 0

UbTable_Noop(u, id, d) == u

UbTable(u, id, d) == IF UbRejects(id, d) THEN u ELSE UpdateBalanceStmt(u, id, d)

\* the UPDATE was committed, and the read-back SELECT follows
UbCommitted(u, id, d) == ~UbRejects(id, d) /\ RowCount(u, id) # 0

\* the model does not follow a balance out of -MaxDebt..MaxBalance
UbInBounds(u, id, d) ==
    UbCommitted(u, id, d) => InRange(u[id].balance + d)

\* database.update_balance, second half: the read-back SELECT and the result
UbReadBack(u, id) == SelectBalance(u, id)

\* database.add_user_record: the INSERT; the sqlite3.IntegrityError of a
\* uuid that is already stored is logged and swallowed
add_user_record(u, id, h, starting_balance, t) ==
    IF id = NoId THEN u
    ELSE IF id \in DOMAIN u THEN u
    ELSE InsertStmt(u, id, Row(h, starting_balance, t))

\* database.generate_uuid; `id` is what uuid.uuid4() draws
generate_uuid(p, id, ua, starting_balance) ==
    /\ Idle(p)
    /\ users' = add_user_record(users, id, hash_user_agent(ua), starting_balance, now)
    /\ proc' = [proc EXCEPT ![p] =
                  [Begin("generate_uuid", id, {id}) EXCEPT
                      !.pc = "done", !.balance = starting_balance, !.ret = Some(id)]]
    /\ issued' = issued \cup {id}
    /\ UNCHANGED <<now, env, prev, initial>>

\* database.get_balance
get_balance(p, id) ==
    /\ Idle(p)
    /\ proc' = [proc EXCEPT ![p] =
                  [Begin("get_balance", id, {id}) EXCEPT
                      !.pc = "done", !.ret = Some(DbGetBalance(users, id))]]
    /\ UNCHANGED <<users, now, env, prev, initial, issued>>

\* database.update_balance, up to the rollback or commit
update_balance(p, id, d) ==
    /\ Idle(p)
    /\ UbInBounds(users, id, d)
    /\ users' = UbTable(users, id, d)
    /\ proc' = [proc EXCEPT ![p] =
                  [Begin("update_balance", id, {id}) EXCEPT
                      !.pc = IF UbCommitted(users, id, d) THEN "select" ELSE "done",
                      !.balance_change = d]]
    /\ UNCHANGED <<now, env, prev, initial, issued>>

\* database.update_balance: the read-back after the commit
update_balance_select(p) ==
    /\ At(p, "update_balance", "select")
    /\ proc' = [proc EXCEPT ![p].pc = "done",
                            ![p].ret = UbReadBack(users, proc[p].user_uuid)]
    /\ UNCHANGED <<users, now, env, prev, initial, issued>>

\* database.use_balance: the balance check
use_balance(p, id) ==
    /\ Idle(p)
    /\ LET balance == DbGetBalance(users, id)
       IN proc' = [proc EXCEPT ![p] =
                  IF id = NoId
                  THEN [Begin("use_balance", id, {id}) EXCEPT
                           !.pc = "done", !.ret = Some(FALSE)]
                  ELSE IF balance > 0
                  THEN [Begin("use_balance", id, {id}) EXCEPT
                           !.pc = "update", !.balance = balance]
                  ELSE [Begin("use_balance", id, {id}) EXCEPT
                           !.pc = "done", !.balance = balance, !.ret = Some(FALSE)]]
    /\ UNCHANGED <<users, now, env, prev, initial, issued>>

\* database.use_balance: update_balance(user_uuid, -1), up to the commit
use_balance_update(p) ==
    /\ At(p, "use_balance", "update")
    /\ LET id == proc[p].user_uuid
       IN /\ UbInBounds(users, id, -1)
          /\ users' = UbTable(users, id, -1)
          /\ proc' = [proc EXCEPT
                  ![p].pc = IF UbCommitted(users, id, -1) THEN "select" ELSE "done",
                  ![p].ret = IF UbCommitted(users, id, -1) THEN None ELSE Some(FALSE)]
    /\ UNCHANGED <<now, env, prev, initial, issued>>

\* database.use_balance: the read-back of update_balance, and the result
use_balance_select(p) ==
    /\ At(p, "use_balance", "select")
    /\ LET updated_balance == UbReadBack(users, proc[p].user_uuid)
       IN proc' = [proc EXCEPT ![p].pc = "done",
                               ![p].updated_balance = updated_balance,
                               ![p].ret = Some(updated_balance # None)]
    /\ UNCHANGED <<users, now, env, prev, initial, issued>>

(* utils.get_balance: the balance read that evaluates the free grant.      *)
\* last_awarded = database.get_last_awarded(user_uuid)
utils_get_balance(p, id) ==
    /\ Idle(p)
    /\ proc' = [proc EXCEPT ![p] =
                  [Begin("utils_get_balance", id, {id}) EXCEPT
                      !.pc = "time", !.last_awarded = DbGetLastAwarded(users, id)]]
    /\ UNCHANGED <<users, now, env, prev, initial, issued>>

GrantDue_Always(current_time, last_awarded, interval) == TRUE

GrantDue_Strict(current_time, last_awarded, interval) ==
    current_time - last_awarded > interval

\* the grant is due: current_time - last_awarded >= free_balance_interval
GrantDue(current_time, last_awarded, interval) ==
    current_time - last_awarded >= interval

\* current_time = int(time.time()), and the test of the interval
utils_get_balance_time(p) ==
    /\ At(p, "utils_get_balance", "time")
    /\ proc' = [proc EXCEPT
          ![p].current_time = now,
          ![p].pc = IF GrantDue(now, proc[p].last_awarded, env.FREE_BALANCE_INTERVAL)
                    THEN "award" ELSE "read"]
    /\ UNCHANGED <<users, now, env, prev, initial, issued>>

\* database.update_balance(user_uuid, free_balance_amount), up to the commit
utils_get_balance_award(p) ==
    /\ At(p, "utils_get_balance", "award")
    /\ LET id == proc[p].user_uuid
           d == env.FREE_BALANCE
       IN /\ UbInBounds(users, id, d)
          /\ users' = UbTable(users, id, d)
          /\ proc' = [proc EXCEPT
                  ![p].balance_change = d,
                  ![p].pc = IF UbCommitted(users, id, d) THEN "award_select" ELSE "stamp"]
    /\ UNCHANGED <<now, env, prev, initial, issued>>

\* the read-back of that update_balance; its result is not used
utils_get_balance_award_select(p) ==
    /\ At(p, "utils_get_balance", "award_select")
    /\ proc' = [proc EXCEPT ![p].pc = "stamp",
                            ![p].updated_balance = UbReadBack(users, proc[p].user_uuid)]
    /\ UNCHANGED <<users, now, env, prev, initial, issued>>

\* database.update_last_awarded(user_uuid, current_time)
utils_get_balance_stamp(p) ==
    /\ At(p, "utils_get_balance", "stamp")
    /\ users' = DbUpdateLastAwarded(users, proc[p].user_uuid, proc[p].current_time)
    /\ proc' = [proc EXCEPT ![p].pc = "read"]
    /\ UNCHANGED <<now, env, prev, initial, issued>>

\* balance = database.get_balance(user_uuid); return balance
utils_get_balance_read(p) ==
    /\ At(p, "utils_get_balance", "read")
    /\ LET balance == DbGetBalance(users, proc[p].user_uuid)
       IN proc' = [proc EXCEPT ![p].pc = "done", ![p].balance = balance,
                               ![p].ret = Some(balance)]
    /\ UNCHANGED <<users, now, env, prev, initial, issued>>

(* Storage failures.  Every statement of database.update_balance runs     *)
(* inside `try: ... except sqlite3.Error`, which logs and returns None.    *)
\* database.update_balance: sqlite3.connect, BEGIN or the UPDATE raises, and
\* nothing is committed
update_balance_error(p, id, d) ==
    /\ Idle(p)
    /\ ~UbRejects(id, d)
    /\ proc' = [proc EXCEPT ![p] =
                  [Begin("update_balance", id, {id}) EXCEPT
                      !.pc = "done", !.balance_change = d, !.ret = None]]
    /\ UNCHANGED <<users, now, env, prev, initial, issued>>

\* database.update_balance: the read-back SELECT raises after the commit
update_balance_select_error(p) ==
    /\ At(p, "update_balance", "select")
    /\ proc' = [proc EXCEPT ![p].pc = "done", ![p].ret = None]
    /\ UNCHANGED <<users, now, env, prev, initial, issued>>

\* utils.get_balance: database.update_balance(user_uuid, free_balance_amount)
\* raises before its commit and returns None, which get_balance does not look at
utils_get_balance_award_error(p) ==
    /\ At(p, "utils_get_balance", "award")
    /\ ~UbRejects(proc[p].user_uuid, env.FREE_BALANCE)
    /\ proc' = [proc EXCEPT ![p].balance_change = env.FREE_BALANCE,
                            ![p].pc = "stamp"]
    /\ UNCHANGED <<users, now, env, prev, initial, issued>>

\* database.clear_all_balances
clear_all_balances(p) ==
    /\ Idle(p)
    /\ users' = ClearAllStmt(users)
    /\ proc' = [proc EXCEPT ![p] =
                  [Begin("clear_all_balances", NoId, Ids) EXCEPT !.pc = "done"]]
    /\ UNCHANGED <<now, env, prev, initial, issued>>

\* database.delete_user_record
delete_user_record(p, id) ==
    /\ Idle(p)
    /\ users' = IF id = NoId THEN users ELSE DeleteStmt(users, id)
    /\ proc' = [proc EXCEPT ![p] =
                  [Begin("delete_user_record", id, {id}) EXCEPT !.pc = "done"]]
    /\ UNCHANGED <<now, env, prev, initial, issued>>

\* database.delete_all_user_records
delete_all_user_records(p) ==
    /\ Idle(p)
    /\ users' = DeleteAllStmt(users)
    /\ proc' = [proc EXCEPT ![p] =
                  [Begin("delete_all_user_records", NoId, Ids) EXCEPT !.pc = "done"]]
    /\ UNCHANGED <<now, env, prev, initial, issued>>

\* database.update_user_agent
update_user_agent(p, id, ua) ==
    /\ Idle(p)
    /\ users' = IF id = NoId THEN users
                ELSE UpdateUserAgentStmt(users, id, hash_user_agent(ua))
    /\ proc' = [proc EXCEPT ![p] =
                  [Begin("update_user_agent", id, {id}) EXCEPT !.pc = "done"]]
    /\ UNCHANGED <<now, env, prev, initial, issued>>

\* database.update_last_awarded
update_last_awarded(p, id, last_awarded) ==
    /\ Idle(p)
    /\ users' = DbUpdateLastAwarded(users, id, last_awarded)
    /\ proc' = [proc EXCEPT ![p] =
                  [Begin("update_last_awarded", id, {id}) EXCEPT
                      !.pc = "done", !.last_awarded = last_awarded]]
    /\ UNCHANGED <<now, env, prev, initial, issued>>

\* the response is delivered and the handler is free for the next request
Return(p) ==
    /\ proc[p].pc = "done"
    /\ proc' = [proc EXCEPT ![p] = IdleProc]
    /\ prev' = [prev EXCEPT ![p] = NoPrev]
    /\ UNCHANGED <<users, now, env, initial, issued>>

\* the same, and the client keeps what the call was and what it returned
ReturnRecord(p) ==
    /\ proc[p].pc = "done"
    /\ proc' = [proc EXCEPT ![p] = IdleProc]
    /\ prev' = [prev EXCEPT ![p] =
                  [op |-> proc[p].op, user_uuid |-> proc[p].user_uuid,
                   balance_change |-> proc[p].balance_change,
                   current_time |-> proc[p].current_time,
                   last_awarded |-> proc[p].last_awarded,
                   ret |-> proc[p].ret, pre |-> proc[p].pre]]
    /\ UNCHANGED <<users, now, env, initial, issued>>

\* time passes
Tick ==
    /\ now < MaxTime
    /\ now' = now + 1
    /\ UNCHANGED <<users, env, proc, prev, initial, issued>>

(***************************************************************************)
(* The helpers of utils.py that cli.py and the tests call.                  *)
(***************************************************************************)
\* utils.generate_uuid: database.add_user_record with the uuid that uuid4()
\* draws, and the uuid as the result
utils_generate_uuid(p, id, ua, starting_balance) ==
    /\ Idle(p)
    /\ users' = add_user_record(users, id, hash_user_agent(ua), starting_balance, now)
    /\ proc' = [proc EXCEPT ![p] =
                  [Begin("utils_generate_uuid", id, {id}) EXCEPT
                      !.pc = "done", !.balance = starting_balance, !.ret = Some(id)]]
    /\ issued' = issued \cup {id}
    /\ UNCHANGED <<now, env, prev, initial>>

\* utils.add_balance_manually: database.update_balance(user_uuid,
\* balance_to_add), up to the rollback or commit
add_balance_manually(p, id, balance_to_add) ==
    /\ Idle(p)
    /\ UbInBounds(users, id, balance_to_add)
    /\ users' = UbTable(users, id, balance_to_add)
    /\ proc' = [proc EXCEPT ![p] =
                  [Begin("add_balance_manually", id, {id}) EXCEPT
                      !.pc = IF UbCommitted(users, id, balance_to_add)
                             THEN "select" ELSE "done",
                      !.balance_change = balance_to_add,
                      !.balance_to_add = balance_to_add]]
    /\ UNCHANGED <<now, env, prev, initial, issued>>

\* utils.add_balance_manually: the read-back of update_balance, which is
\* logged; the function returns nothing
add_balance_manually_select(p) ==
    /\ At(p, "add_balance_manually", "select")
    /\ proc' = [proc EXCEPT ![p].pc = "done",
                            ![p].updated_balance = UbReadBack(users, proc[p].user_uuid)]
    /\ UNCHANGED <<users, now, env, prev, initial, issued>>

(***************************************************************************)
(* The index request: a new account for a client without a cookie, and the  *)
(* check of the stored fingerprint for a client with one.                   *)
(***************************************************************************)
\* database.get_user_agent, a single SELECT: the stored hash or None
DbGetUserAgent(u, id) ==
    IF id = NoId THEN None ELSE SelectUserAgent(u, id)

\* database.update_user_agent, a single UPDATE
DbUpdateUserAgent(u, id, ua) ==
    IF id = NoId THEN u ELSE UpdateUserAgentStmt(u, id, hash_user_agent(ua))

\* str.strip(): "ua1 " is the one User-Agent of the model with white space
\* at an end
Strip(ua) == IF ua = "ua1 " THEN "ua1" ELSE ua

\* app.index, up to its first statement: without a User-Agent a BadRequest;
\* without a cookie database.generate_uuid(user_agent), whose uuid4() draws
\* `fresh`, and the page with the starting balance 10; with a cookie
\* database.get_user_agent and the comparison with the hash of the header
index(p, user_uuid, user_agent_string, fresh) ==
    /\ Idle(p)
    /\ LET hashed_user_agent == hash_user_agent(user_agent_string)
           stored_user_agent == DbGetUserAgent(users, user_uuid)
           call == [Begin("index", user_uuid, Ids) EXCEPT
                       !.user_agent = user_agent_string]
       IN  IF user_agent_string = ""
           THEN /\ users' = users
                /\ issued' = issued
                /\ proc' = [proc EXCEPT ![p] =
                      [call EXCEPT !.pc = "done", !.ret = Some("BadRequest")]]
           ELSE IF user_uuid = NoId
           THEN /\ users' = add_user_record(users, fresh, hashed_user_agent, 10, now)
                /\ issued' = issued \cup {fresh}
                /\ proc' = [proc EXCEPT ![p] =
                      [call EXCEPT !.pc = "done", !.user_uuid = fresh,
                                   !.balance = 10, !.ret = Some("index.html")]]
           ELSE /\ users' = users
                /\ issued' = issued
                /\ proc' = [proc EXCEPT ![p] =
                      [call EXCEPT
                          !.pc = IF \/ stored_user_agent = None
                                    \/ TheVal(stored_user_agent) # hashed_user_agent
                                 THEN "update" ELSE "balance"]]
    /\ UNCHANGED <<now, env, prev, initial>>

\* app.index: database.update_user_agent(user_uuid, user_agent_string.strip())
index_update_user_agent(p) ==
    /\ At(p, "index", "update") \/ At(p, "index_route", "update")
    /\ users' = DbUpdateUserAgent(users, proc[p].user_uuid, Strip(proc[p].user_agent))
    /\ proc' = [proc EXCEPT ![p].pc = "balance"]
    /\ UNCHANGED <<now, env, prev, initial, issued>>

\* app.index: balance = database.get_balance(user_uuid), and the page
index_get_balance(p) ==
    /\ At(p, "index", "balance") \/ At(p, "index_route", "balance")
    /\ proc' = [proc EXCEPT ![p].pc = "done",
                            ![p].balance = DbGetBalance(users, proc[p].user_uuid),
                            ![p].ret = IF proc[p].op = "index"
                                       THEN Some("index.html")
                                       ELSE Some("public.html")]
    /\ UNCHANGED <<users, now, env, prev, initial, issued>>

\* public_database.add_user_record: SELECT COUNT(*) raises ValueError for a
\* stored uuid; the INSERT names the column user_agent_hash, which the users
\* table does not have, and raises sqlite3.OperationalError; neither is
\* caught, and nothing is committed
public_add_user_record(u, id, h, balance) ==
    [users |-> u,
     raised |-> IF id \in DOMAIN u THEN "ValueError" ELSE "OperationalError"]

\* public.index_route (also index_update_user_agent and index_get_balance,
\* whose statements are the same in public_database); without a cookie
\* public_database.generate_uuid, whose uuid4() draws `fresh`
index_route(p, user_uuid, user_agent_string, fresh) ==
    /\ Idle(p)
    /\ LET hashed_user_agent == hash_user_agent(user_agent_string)
           stored_user_agent == DbGetUserAgent(users, user_uuid)
           added == public_add_user_record(users, fresh, hashed_user_agent, 10)
           call == [Begin("index_route", user_uuid, Ids) EXCEPT
                       !.user_agent = user_agent_string]
       IN  IF user_agent_string = ""
           THEN /\ users' = users
                /\ proc' = [proc EXCEPT ![p] =
                      [call EXCEPT !.pc = "done", !.ret = Some("BadRequest")]]
           ELSE IF user_uuid = NoId
           THEN /\ users' = added.users
                /\ proc' = [proc EXCEPT ![p] =
                      [call EXCEPT !.pc = "done",
                                   !.ret = Some("InternalServerError")]]
           ELSE /\ users' = users
                /\ proc' = [proc EXCEPT ![p] =
                      [call EXCEPT
                          !.pc = IF \/ stored_user_agent = None
                                    \/ TheVal(stored_user_agent) # hashed_user_agent
                                 THEN "update" ELSE "balance"]]
    /\ UNCHANGED <<now, env, prev, initial, issued>>

\* SELECT 1 FROM users WHERE uuid = ?  followed by fetchone()
DbCheckUuidExists(u, id) == id # NoId /\ id \in DOMAIN u

\* app.access_existing_balance, up to database.check_uuid_exists(user_uuid)
access_existing_balance(p, user_uuid) ==
    /\ Idle(p)
    /\ proc' = [proc EXCEPT ![p] =
                  IF user_uuid = NoId
                  THEN [Begin("access_existing_balance", user_uuid, Ids) EXCEPT
                           !.pc = "done", !.ret = Some("BadRequest")]
                  ELSE IF DbCheckUuidExists(users, user_uuid)
                  THEN [Begin("access_existing_balance", user_uuid, Ids) EXCEPT
                           !.pc = "balance"]
                  ELSE [Begin("access_existing_balance", user_uuid, Ids) EXCEPT
                           !.pc = "done", !.ret = Some("Invalid UUID")]]
    /\ UNCHANGED <<users, now, env, prev, initial, issued>>

\* app.access_existing_balance: balance = database.get_balance(user_uuid),
\* and the redirect that shows it
access_existing_balance_get_balance(p) ==
    /\ At(p, "access_existing_balance", "balance")
    /\ proc' = [proc EXCEPT ![p].pc = "done",
                            ![p].balance = DbGetBalance(users, proc[p].user_uuid),
                            ![p].ret = Some("index")]
    /\ UNCHANGED <<users, now, env, prev, initial, issued>>

(***************************************************************************)
(* The requests that clear balances and delete accounts: the routes of      *)
(* app.py, which ask for FLASK_ENV, clear_balance_route of the public       *)
(* blueprint and the two routes of the admin blueprint.                     *)
(***************************************************************************)
\* os.getenv("FLASK_ENV") == "development"
Development == env.FLASK_ENV = "development"

\* the handler answers without a statement
Answer(p, o, id, r) ==
    [proc EXCEPT ![p] = [Begin(o, id, Ids) EXCEPT !.pc = "done", !.ret = Some(r)]]

\* app.clear_balance, up to balance_cleared = -database.get_balance(user_uuid)
app_clear_balance(p, user_uuid) ==
    /\ Idle(p)
    /\ proc' = IF ~Development THEN Answer(p, "app_clear_balance", user_uuid, "not allowed")
               ELSE IF user_uuid = NoId
               THEN Answer(p, "app_clear_balance", user_uuid, "not found")
               ELSE [proc EXCEPT ![p] =
                        [Begin("app_clear_balance", user_uuid, Ids) EXCEPT
                            !.pc = "update",
                            !.balance = DbGetBalance(users, user_uuid),
                            !.balance_change = -DbGetBalance(users, user_uuid)]]
    /\ UNCHANGED <<users, now, env, prev, initial, issued>>

\* public.clear_balance_route, up to balance_cleared = -get_balance(user_uuid)
clear_balance_route(p, user_uuid) ==
    /\ Idle(p)
    /\ proc' = IF user_uuid = NoId
               THEN Answer(p, "clear_balance_route", user_uuid, "not found")
               ELSE [proc EXCEPT ![p] =
                        [Begin("clear_balance_route", user_uuid, Ids) EXCEPT
                            !.pc = "update",
                            !.balance = DbGetBalance(users, user_uuid),
                            !.balance_change = -DbGetBalance(users, user_uuid)]]
    /\ UNCHANGED <<users, now, env, prev, initial, issued>>

\* update_balance(user_uuid, balance_cleared), up to the commit: of
\* database.py for app.clear_balance, of public_database.py, which has no
\* parameter check, for clear_balance_route
clear_balance_update(p) ==
    /\ proc[p].op \in {"app_clear_balance", "clear_balance_route"}
    /\ proc[p].pc = "update"
    /\ LET id == proc[p].user_uuid
           d == proc[p].balance_change
           committed == IF proc[p].op = "app_clear_balance"
                        THEN UbCommitted(users, id, d)
                        ELSE RowCount(users, id) # 0
       IN  /\ users' = IF proc[p].op = "app_clear_balance"
                       THEN UbTable(users, id, d)
                       ELSE UpdateBalanceStmt(users, id, d)
           /\ proc' = [proc EXCEPT
                  ![p].pc = IF committed THEN "select" ELSE "done",
                  ![p].ret = IF committed THEN None ELSE Some("cleared")]
    /\ UNCHANGED <<now, env, prev, initial, issued>>

\* the read-back of that update_balance; its result is not used
clear_balance_select(p) ==
    /\ proc[p].op \in {"app_clear_balance", "clear_balance_route"}
    /\ proc[p].pc = "select"
    /\ proc' = [proc EXCEPT ![p].pc = "done",
                            ![p].updated_balance = UbReadBack(users, proc[p].user_uuid),
                            ![p].ret = Some("cleared")]
    /\ UNCHANGED <<users, now, env, prev, initial, issued>>

\* app.delete_user_record
app_delete_user_record(p, user_uuid) ==
    /\ Idle(p)
    /\ users' = IF Development /\ user_uuid # NoId
                THEN DeleteStmt(users, user_uuid) ELSE users
    /\ proc' = IF ~Development
               THEN Answer(p, "app_delete_user_record", user_uuid, "not allowed")
               ELSE IF user_uuid = NoId
               THEN Answer(p, "app_delete_user_record", user_uuid, "not found")
               ELSE Answer(p, "app_delete_user_record", user_uuid, "deleted")
    /\ UNCHANGED <<now, env, prev, initial, issued>>

\* app.clear_all_balances
app_clear_all_balances(p) ==
    /\ Idle(p)
    /\ users' = IF Development THEN ClearAllStmt(users) ELSE users
    /\ proc' = Answer(p, "app_clear_all_balances", NoId,
                      IF Development THEN "cleared" ELSE "not allowed")
    /\ UNCHANGED <<now, env, prev, initial, issued>>

\* app.delete_all_user_records
app_delete_all_user_records(p) ==
    /\ Idle(p)
    /\ users' = IF Development THEN DeleteAllStmt(users) ELSE users
    /\ proc' = Answer(p, "app_delete_all_user_records", NoId,
                      IF Development THEN "deleted" ELSE "not allowed")
    /\ UNCHANGED <<now, env, prev, initial, issued>>

\* admin.clear_all_balances_route: database.clear_all_balances()
clear_all_balances_route(p) ==
    /\ Idle(p)
    /\ users' = ClearAllStmt(users)
    /\ proc' = Answer(p, "clear_all_balances_route", NoId, "cleared")
    /\ UNCHANGED <<now, env, prev, initial, issued>>

\* admin.delete_all_user_records_route: database.delete_all_user_records()
delete_all_user_records_route(p) ==
    /\ Idle(p)
    /\ users' = DeleteAllStmt(users)
    /\ proc' = Answer(p, "delete_all_user_records_route", NoId, "deleted")
    /\ UNCHANGED <<now, env, prev, initial, issued>>

(***************************************************************************)
(* The purchase catalog.  PURCHASE_PACKS and COUPONS are environment        *)
(* strings "item;item;...", every item "part:part:...".  A string is the    *)
(* sequence of its items and an item the sequence of its parts: a name, a   *)
(* list of coupon codes (a set: only `in` is asked of it) or a number.      *)
(***************************************************************************)
\* the item at the highest position among `kept` that has the key n
LastItem(items, kept, n) ==
    items[CHOOSE i \in kept :
              items[i][1] = n /\ \A j \in kept : items[j][1] = n => j <= i]

\* utils.parse_purchase_packs: the items PACK_NAME:APPLICABLE_COUPONS:SIZE;
\* an item that has not three parts is passed over, a later item replaces an
\* earlier one of the same name
parse_purchase_packs(items) ==
    LET kept == {i \in 1..Len(items) : Len(items[i]) = 3}
    IN  [pack_name \in {items[i][1] : i \in kept} |->
            LET parts == LastItem(items, kept, pack_name)
            IN  [applicable_coupons |-> parts[2], size |-> parts[3]]]

\* utils.parse_coupons: the items COUPON_CODE:DISCOUNT; the discount is any
\* integer
parse_coupons(items) ==
    LET kept == {i \in 1..Len(items) : Len(items[i]) = 2}
    IN  [coupon_code \in {items[i][1] : i \in kept} |->
            [discount |-> LastItem(items, kept, coupon_code)[2]]]

ValidateCoupon_AnyPack(coupon_code, balance_pack, e) ==
    IF coupon_code \in DOMAIN parse_coupons(e.COUPONS)
    THEN [is_valid |-> TRUE, discount |-> parse_coupons(e.COUPONS)[coupon_code].discount]
    ELSE [is_valid |-> FALSE, discount |-> 0]

\* utils.validate_coupon (src/utils.py): (is_valid, discount)
ValidateCoupon(coupon_code, balance_pack, e) ==
    LET coupons == parse_coupons(e.COUPONS)
        applicable_packs == parse_purchase_packs(e.PURCHASE_PACKS)
    IN  IF coupon_code \in DOMAIN coupons
        THEN IF /\ balance_pack \in DOMAIN applicable_packs
                /\ coupon_code \in applicable_packs[balance_pack].applicable_coupons
             THEN [is_valid |-> TRUE, discount |-> coupons[coupon_code].discount]
             ELSE [is_valid |-> FALSE, discount |-> 0]
        ELSE [is_valid |-> FALSE, discount |-> 0]

\* utils.validate_coupon of src/utils/utils.py: it calls
\* parse_coupons('COUPONS') without the currency_unit that this parse_coupons
\* requires; the TypeError is caught by `except Exception`
UtilsUtilsValidateCoupon(coupon_code, balance_pack, e) ==
    [is_valid |-> FALSE, discount |-> 0]

\* a call of validate_coupon of src/utils.py
validate_coupon(p, coupon_code, balance_pack) ==
    /\ Idle(p)
    /\ LET r == ValidateCoupon(coupon_code, balance_pack, env)
       IN proc' = [proc EXCEPT ![p] =
                  [Begin("validate_coupon", NoId, {}) EXCEPT
                      !.pc = "done", !.coupon_code = coupon_code,
                      !.balance_pack = balance_pack,
                      !.is_valid = r.is_valid, !.discount = r.discount]]
    /\ UNCHANGED <<users, now, env, prev, initial, issued>>

\* a call of validate_coupon of src/utils/utils.py
utils_utils_validate_coupon(p, coupon_code, balance_pack) ==
    /\ Idle(p)
    /\ LET r == UtilsUtilsValidateCoupon(coupon_code, balance_pack, env)
       IN proc' = [proc EXCEPT ![p] =
                  [Begin("utils_utils_validate_coupon", NoId, {}) EXCEPT
                      !.pc = "done", !.coupon_code = coupon_code,
                      !.balance_pack = balance_pack,
                      !.is_valid = r.is_valid, !.discount = r.discount]]
    /\ UNCHANGED <<users, now, env, prev, initial, issued>>

MantissaBits == 53     \* significant binary digits of a Python float

(***************************************************************************)
(* Python arithmetic of buy_balance: int(balance_to_add * (discount /     *)
(* 100)).  `/` and `*` are IEEE 754 double operations, each the exact      *)
(* result rounded to 53 significant bits (ties to even), and int() cuts    *)
(* the fraction off.  A double is [bits, exp]: 53 binary digits, the first *)
(* a 1 of weight 2^exp.                                                    *)
(***************************************************************************)
RECURSIVE BinDigits(_)
\* the binary digits of the natural number n, the highest first
BinDigits(n) == IF n = 0 THEN <<>> ELSE Append(BinDigits(n \div 2), n % 2)

RECURSIVE BitsValue(_)
\* the natural number whose binary digits are b
BitsValue(b) ==
    IF b = <<>> THEN 0
    ELSE 2 * BitsValue(SubSeq(b, 1, Len(b) - 1)) + b[Len(b)]

RECURSIVE FracDigits(_, _, _)
\* the first k binary digits of the fraction r / den, 0 <= r < den, sixteen
\* digits at a time
FracDigits(r, den, k) ==
    IF k <= 16 THEN [i \in 1..k |-> ((r * 2^i) \div den) % 2]
    ELSE [i \in 1..16 |-> ((r * 2^i) \div den) % 2]
            \o FracDigits((r * 2^16) % den, den, k - 16)

RECURSIVE FracRest(_, _, _)
\* what is left of r after k digits of r / den
FracRest(r, den, k) ==
    IF k <= 16 THEN (r * 2^k) % den
    ELSE FracRest((r * 2^16) % den, den, k - 16)

\* b + 1, one digit longer when every digit of b is a 1
Increment(b) ==
    IF \A i \in 1..Len(b) : b[i] = 1
    THEN <<1>> \o [i \in 1..Len(b) |-> 0]
    ELSE LET z == CHOOSE i \in 1..Len(b) :
                      b[i] = 0 /\ \A j \in (i + 1)..Len(b) : b[j] = 1
         IN  [i \in 1..Len(b) |-> IF i < z THEN b[i] ELSE IF i = z THEN 1 ELSE 0]

\* rounding to nearest, ties to even: the digits d (a 1 among them, the
\* first of weight 2^w), followed by more digits that are not all 0 when
\* `sticky`, as a double
RoundToDouble(d, w, sticky) ==
    LET f == CHOOSE i \in 1..Len(d) : d[i] = 1 /\ \A j \in 1..(i - 1) : d[j] = 0
        n == Len(d) - f + 1
    IN  IF n <= MantissaBits
        THEN [bits |-> SubSeq(d, f, Len(d)) \o [i \in 1..(MantissaBits - n) |-> 0],
              exp |-> w - (f - 1)]
        ELSE LET m == SubSeq(d, f, f + MantissaBits - 1)
                 guard == d[f + MantissaBits]
                 rest == sticky \/ \E i \in (f + MantissaBits + 1)..Len(d) : d[i] = 1
                 up == guard = 1 /\ (rest \/ m[MantissaBits] = 1)
                 r == IF up THEN Increment(m) ELSE m
             IN  IF Len(r) > MantissaBits
                 THEN [bits |-> SubSeq(r, 1, MantissaBits), exp |-> w - (f - 1) + 1]
                 ELSE [bits |-> r, exp |-> w - (f - 1)]

\* float n / float den for natural numbers n > 0, den > 0
FloatDiv(n, den) ==
    LET whole == BinDigits(n \div den)
        k == MantissaBits + 1 + Len(BinDigits(den))
    IN  RoundToDouble(whole \o FracDigits(n % den, den, k), Len(whole) - 1,
                      FracRest(n % den, den, k) # 0)

RECURSIVE TimesDigits(_, _, _)
\* the digits b times the natural number s, plus c: [d, c], the digits of
\* the result below the carry c; twelve digits of b at a time
TimesDigits(b, s, c) ==
    IF Len(b) <= 12
    THEN LET t == s * BitsValue(b) + c
         IN  [d |-> [i \in 1..Len(b) |-> (t \div 2^(Len(b) - i)) % 2],
              c |-> t \div 2^Len(b)]
    ELSE LET low == TimesDigits(SubSeq(b, Len(b) - 11, Len(b)), s, c)
             high == TimesDigits(SubSeq(b, 1, Len(b) - 12), s, low.c)
         IN  [d |-> high.d \o low.d, c |-> high.c]

\* float s * x for a natural number s > 0 and a double x
FloatTimes(s, x) ==
    LET p == TimesDigits(x.bits, s, 0)
        carry == BinDigits(p.c)
    IN  RoundToDouble(carry \o p.d, x.exp + Len(carry), FALSE)

\* int(x) for a double x >= 0
FloatToInt(x) ==
    IF x.exp < 0 THEN 0
    ELSE BitsValue(SubSeq(x.bits, 1, x.exp + 1))

Sign(n) == IF n < 0 THEN -1 ELSE IF n > 0 THEN 1 ELSE 0
Abs(n) == IF n < 0 THEN -n ELSE n

\* int(balance_to_add * (discount / 100))
DiscountedAway(balance_to_add, discount) ==
    IF balance_to_add = 0 \/ discount = 0 THEN 0
    ELSE Sign(balance_to_add) * Sign(discount)
            * FloatToInt(FloatTimes(Abs(balance_to_add), FloatDiv(Abs(discount), 100)))

(***************************************************************************)
(* The purchase request.                                                    *)
(***************************************************************************)
\* app.buy_balance, up to the commit of database.update_balance (development
\* mode) or the redirect to the payment page; process_payment puts
\* max(0, size - size * discount / 100) into the payment URL and stores
\* nothing
buy_balance(p, user_uuid, balance_pack, coupon_code) ==
    /\ Idle(p)
    /\ LET PURCHASE_PACKS == parse_purchase_packs(env.PURCHASE_PACKS)
           v == ValidateCoupon(coupon_code, balance_pack, env)
           discount == IF coupon_code # "" THEN v.discount ELSE 0
           size == PURCHASE_PACKS[balance_pack].size
           balance_to_add == size - DiscountedAway(size, discount)
           call == [Begin("buy_balance", user_uuid, Ids) EXCEPT
                       !.balance_pack = balance_pack, !.coupon_code = coupon_code]
       IN  IF \/ user_uuid = NoId
              \/ balance_pack = ""
              \/ balance_pack \notin DOMAIN PURCHASE_PACKS
           THEN /\ users' = users
                /\ proc' = [proc EXCEPT ![p] =
                      [call EXCEPT !.pc = "done", !.ret = Some("BadRequest")]]
           ELSE IF coupon_code # "" /\ ~v.is_valid
           THEN /\ users' = users
                /\ proc' = [proc EXCEPT ![p] =
                      [call EXCEPT !.pc = "done", !.ret = Some("invalid coupon")]]
           ELSE IF env.FLASK_ENV = "development"
           THEN /\ users' = UbTable(users, user_uuid, balance_to_add)
                /\ proc' = [proc EXCEPT ![p] =
                      [call EXCEPT
                          !.is_valid = TRUE, !.discount = discount,
                          !.balance_to_add = balance_to_add,
                          !.balance_change = balance_to_add,
                          !.pc = IF UbCommitted(users, user_uuid, balance_to_add)
                                 THEN "select" ELSE "done",
                          !.ret = IF UbCommitted(users, user_uuid, balance_to_add)
                                  THEN None ELSE Some("failed")]]
           ELSE /\ users' = users
                /\ proc' = [proc EXCEPT ![p] =
                      [call EXCEPT
                          !.is_valid = TRUE, !.discount = discount,
                          !.balance_to_add = balance_to_add,
                          !.pc = "done", !.ret = Some("payment")]]
    /\ UNCHANGED <<now, env, prev, initial, issued>>

\* public_database.get_purchase_packs: the rows (pack_name, size) of the
\* purchase_packs table as a dictionary; pack_name is UNIQUE
get_purchase_packs(rows) ==
    [pack_name \in {rows[i][1] : i \in 1..Len(rows)} |->
        [size |-> (CHOOSE r \in {rows[i] : i \in 1..Len(rows)} : r[1] = pack_name)[2]]]

\* public.buy_balance_route, up to the commit of public_database.
\* update_balance: the pack is looked up in the purchase_packs table, the
\* name validate_coupon is not defined in public.py (a NameError, answered
\* with InternalServerError), and the mode is not asked for
buy_balance_route(p, user_uuid, balance_pack, coupon_code) ==
    /\ Idle(p)
    /\ LET purchase_packs == get_purchase_packs(env.purchase_packs)
           discount == 0
           size == purchase_packs[balance_pack].size
           balance_to_add == size - DiscountedAway(size, discount)
           call == [Begin("buy_balance_route", user_uuid, Ids) EXCEPT
                       !.balance_pack = balance_pack, !.coupon_code = coupon_code]
       IN  IF \/ user_uuid = NoId
              \/ balance_pack = ""
              \/ balance_pack \notin DOMAIN purchase_packs
           THEN /\ users' = users
                /\ proc' = [proc EXCEPT ![p] =
                      [call EXCEPT !.pc = "done", !.ret = Some("BadRequest")]]
           ELSE IF coupon_code # ""
           THEN /\ users' = users
                /\ proc' = [proc EXCEPT ![p] =
                      [call EXCEPT !.pc = "done", !.ret = Some("InternalServerError")]]
           ELSE /\ users' = UpdateBalanceStmt(users, user_uuid, balance_to_add)
                /\ proc' = [proc EXCEPT ![p] =
                      [call EXCEPT
                          !.balance_to_add = balance_to_add,
                          !.balance_change = balance_to_add,
                          !.pc = IF RowCount(users, user_uuid) # 0
                                 THEN "select" ELSE "done",
                          !.ret = IF RowCount(users, user_uuid) # 0
                                  THEN None ELSE Some("failed")]]
    /\ UNCHANGED <<now, env, prev, initial, issued>>

\* buy_balance, buy_balance_route: the read-back of update_balance, and the
\* response
buy_balance_select(p) ==
    /\ proc[p].op \in {"buy_balance", "buy_balance_route"}
    /\ proc[p].pc = "select"
    /\ LET updated_balance == UbReadBack(users, proc[p].user_uuid)
       IN proc' = [proc EXCEPT
              ![p].pc = "done",
              ![p].updated_balance = updated_balance,
              ![p].ret = IF updated_balance # None THEN Some("added")
                         ELSE Some("failed")]
    /\ UNCHANGED <<users, now, env, prev, initial, issued>>

(***************************************************************************)
(* Spec: the ledger operations of database.py, one request at a time, on   *)
(* a database that starts empty (init_db) at some time of the clock.       *)
(***************************************************************************)
Envs == [FREE_BALANCE_INTERVAL : 0..MaxInterval, FREE_BALANCE : 0..MaxFree]

IdleAll ==
    /\ proc = [p \in Procs |-> IdleProc]
    /\ prev = [p \in Procs |-> NoPrev]

Init ==
    /\ users = EmptyTable
    /\ initial = EmptyTable
    /\ issued = {}
    /\ now \in Times
    /\ env = [FREE_BALANCE_INTERVAL |-> MaxInterval, FREE_BALANCE |-> MaxFree]
    /\ IdleAll

Next ==
    \/ \E id \in Ids, ua \in Agents, sb \in Starts : generate_uuid(1, id, ua, sb)
    \/ \E id \in AnyId : get_balance(1, id)
    \/ \E id \in AnyId, d \in Deltas : update_balance(1, id, d)
    \/ update_balance_select(1)
    \/ \E id \in AnyId : use_balance(1, id)
    \/ use_balance_update(1)
    \/ use_balance_select(1)
    \/ clear_all_balances(1)
    \/ \E id \in AnyId : delete_user_record(1, id)
    \/ delete_all_user_records(1)
    \/ \E id \in AnyId, ua \in Agents : update_user_agent(1, id, ua)
    \/ Return(1)

Spec == Init /\ [][Next]_vars

(***************************************************************************)
(* One client that makes one call after the other and keeps the result of  *)
(* its previous call.  The table starts with one account, created at time  *)
(* 0; the other uuid has no account.  SpecSeq: utils.get_balance calls,    *)
(* while time passes.  SpecRound: update_balance calls.                    *)
(***************************************************************************)
OneAccount == { InsertStmt(EmptyTable, 1, Row(hash_user_agent("ua1"), b, 0)) : b \in Starts }

InitSeq ==
    /\ users \in OneAccount
    /\ initial = users
    /\ issued = {1}
    /\ now = 0
    /\ env \in Envs
    /\ IdleAll

NextSeq ==
    \/ \E id \in AnyId : utils_get_balance(1, id)
    \/ utils_get_balance_time(1)
    \/ utils_get_balance_award(1)
    \/ utils_get_balance_award_select(1)
    \/ utils_get_balance_stamp(1)
    \/ utils_get_balance_read(1)
    \/ ReturnRecord(1)
    \/ Tick

SpecSeq == InitSeq /\ [][NextSeq]_vars

InitRound ==
    /\ users \in OneAccount
    /\ initial = users
    /\ issued = {1}
    /\ now = 0
    /\ env = [FREE_BALANCE_INTERVAL |-> MaxInterval, FREE_BALANCE |-> MaxFree]
    /\ IdleAll

NextRound ==
    \/ \E id \in AnyId, d \in Deltas : update_balance(1, id, d)
    \/ update_balance_select(1)
    \/ ReturnRecord(1)

SpecRound == InitRound /\ [][NextRound]_vars

(***************************************************************************)
(* Concurrent requests: every handler serves one request, and the          *)
(* statements of the handlers interleave.  The table starts with one       *)
(* account.  SpecDebit: use_balance requests only.  SpecAdjust:            *)
(* update_balance requests only.  SpecGrant: utils.get_balance requests    *)
(* only, while time passes.                                                *)
(***************************************************************************)
InitConc == InitRound

NextDebit ==
    \E p \in Procs :
        \/ \E id \in AnyId : use_balance(p, id)
        \/ use_balance_update(p)
        \/ use_balance_select(p)

SpecDebit == InitConc /\ [][NextDebit]_vars

NextAdjust ==
    \E p \in Procs :
        \/ \E id \in AnyId, d \in Deltas : update_balance(p, id, d)
        \/ update_balance_select(p)

SpecAdjust == InitConc /\ [][NextAdjust]_vars

InitGrant == InitSeq

NextGrant ==
    \/ \E p \in Procs :
        \/ \E id \in AnyId : utils_get_balance(p, id)
        \/ utils_get_balance_time(p)
        \/ utils_get_balance_award(p)
        \/ utils_get_balance_award_select(p)
        \/ utils_get_balance_stamp(p)
        \/ utils_get_balance_read(p)
    \/ Tick

SpecGrant == InitGrant /\ [][NextGrant]_vars

(***************************************************************************)
(* The catalogs the environment can hold, and the pack names and coupon     *)
(* codes a request can carry ("" is a field that is missing or empty).      *)
(* pack_c:10 is not a pack item and SAVE10:10:['pack_a'] not a coupon item  *)
(* of src/utils.py; GONE is applicable to pack_b but no coupon, FREE a      *)
(* coupon that no pack takes.                                               *)
(***************************************************************************)
PackCatalogs ==
    { <<>>,
      << <<"pack_a", {"SAVE10", "SAVE29", "OVER"}, 100>>,
         <<"pack_b", {"SAVE58", "GONE"}, 50>>,
         <<"pack_c", 10>> >>,
      << <<"pack_a", {"SAVE10"}, 100>>,
         <<"pack_a", {"ALL"}, 100>>,
         <<"pack_b", {"SAVE10", "ALL"}, 50>> >> }

CouponCatalogs ==
    { <<>>,
      << <<"SAVE10", 10>>, <<"SAVE29", 29>>, <<"SAVE58", 58>>, <<"OVER", 150>>,
         <<"FREE", 100>>, <<"ALL", 0>>, <<"ALL", 100>>,
         <<"HALF", 50, {"pack_a"}>> >> }

PackNames == {"", "pack_a", "pack_b", "pack_c", "pack_x"}
CouponCodes == {"", "SAVE10", "SAVE29", "SAVE58", "OVER", "FREE", "ALL", "GONE", "HALF", "NOPE"}

\* the purchase_packs table of the shared database (pack_name, size), which
\* no request writes
PackTables == { <<>>, << <<"pack_a", 100>>, <<"pack_x", 50>> >> }

\* the configuration a run of the service starts with and no request changes
CatalogEnvs ==
    { [FREE_BALANCE_INTERVAL |-> MaxInterval, FREE_BALANCE |-> MaxFree,
       FLASK_ENV |-> mode, PURCHASE_PACKS |-> packs, COUPONS |-> coupons,
       purchase_packs |-> rows] :
        mode \in {"development", "production"},
        packs \in PackCatalogs, coupons \in CouponCatalogs, rows \in PackTables }

(***************************************************************************)
(* SpecCatalog: calls of validate_coupon, of src/utils.py and of            *)
(* src/utils/utils.py, under every catalog.                                 *)
(***************************************************************************)
InitCatalog ==
    /\ users = EmptyTable
    /\ initial = EmptyTable
    /\ issued = {}
    /\ now = 0
    /\ env \in CatalogEnvs
    /\ IdleAll

NextCatalog ==
    \/ \E c \in CouponCodes, pk \in PackNames : validate_coupon(1, c, pk)
    \/ \E c \in CouponCodes, pk \in PackNames : utils_utils_validate_coupon(1, c, pk)
    \/ Return(1)

SpecCatalog == InitCatalog /\ [][NextCatalog]_vars

(***************************************************************************)
(* SpecBuy: one purchase request, to app.py or to the public blueprint,      *)
(* under every catalog and in both modes, on a table with one account.      *)
(***************************************************************************)
InitBuy ==
    /\ users \in OneAccount
    /\ initial = users
    /\ issued = {1}
    /\ now = 0
    /\ env \in CatalogEnvs
    /\ IdleAll

NextBuy ==
    \/ \E id \in AnyId, pk \in PackNames, c \in CouponCodes : buy_balance(1, id, pk, c)
    \/ \E id \in AnyId, pk \in PackNames, c \in CouponCodes : buy_balance_route(1, id, pk, c)
    \/ buy_balance_select(1)

SpecBuy == InitBuy /\ [][NextBuy]_vars

(***************************************************************************)
(* SpecIndex: index requests, with and without a cookie, and calls of       *)
(* database.update_user_agent, one at a time, on a database that starts     *)
(* empty.                                                                   *)
(***************************************************************************)
HeaderAgents == Agents \cup {"ua1 ", ""}     \* "" is a missing User-Agent

NextIndex ==
    \/ \E id \in AnyId, ua \in HeaderAgents, fresh \in Ids : index(1, id, ua, fresh)
    \/ index_update_user_agent(1)
    \/ index_get_balance(1)
    \/ \E id \in AnyId, ua \in Agents : update_user_agent(1, id, ua)
    \/ Return(1)

SpecIndex == Init /\ [][NextIndex]_vars

(***************************************************************************)
(* SpecMode: the requests that clear and delete, one at a time, in          *)
(* development and in production mode, on a table with one account.         *)
(***************************************************************************)
ModeEnvs ==
    { [FREE_BALANCE_INTERVAL |-> MaxInterval, FREE_BALANCE |-> MaxFree,
       FLASK_ENV |-> mode] : mode \in {"development", "production"} }

InitMode ==
    /\ users \in OneAccount
    /\ initial = users
    /\ issued = {1}
    /\ now = 0
    /\ env \in ModeEnvs
    /\ IdleAll

NextMode ==
    \/ \E id \in AnyId : app_clear_balance(1, id)
    \/ \E id \in AnyId : clear_balance_route(1, id)
    \/ clear_balance_update(1)
    \/ clear_balance_select(1)
    \/ \E id \in AnyId : app_delete_user_record(1, id)
    \/ app_clear_all_balances(1)
    \/ app_delete_all_user_records(1)
    \/ clear_all_balances_route(1)
    \/ delete_all_user_records_route(1)
    \/ Return(1)

SpecMode == InitMode /\ [][NextMode]_vars

(***************************************************************************)
(* SpecCli: one client that calls utils.generate_uuid, add_balance_manually *)
(* and utils.get_balance one after the other, while time passes, on a       *)
(* database that starts empty; uuid4() draws the same uuid every time.      *)
(***************************************************************************)
InitCli ==
    /\ users = EmptyTable
    /\ initial = EmptyTable
    /\ issued = {}
    /\ now = 0
    /\ env = [FREE_BALANCE_INTERVAL |-> MaxInterval, FREE_BALANCE |-> MaxFree]
    /\ IdleAll

NextCli ==
    \/ \E sb \in Starts : utils_generate_uuid(1, 1, "ua1", sb)
    \/ \E id \in AnyId, d \in Deltas : add_balance_manually(1, id, d)
    \/ add_balance_manually_select(1)
    \/ \E id \in AnyId : utils_get_balance(1, id)
    \/ utils_get_balance_time(1)
    \/ utils_get_balance_award(1)
    \/ utils_get_balance_award_select(1)
    \/ utils_get_balance_stamp(1)
    \/ utils_get_balance_read(1)
    \/ ReturnRecord(1)
    \/ Tick

SpecCli == InitCli /\ [][NextCli]_vars

(***************************************************************************)
(* SpecRead: the requests that show a balance to a client, one at a time:   *)
(* the index page for a client with a cookie, access_existing_balance and   *)
(* utils.get_balance (the balance command of cli.py).  The table starts     *)
(* with one account, created at time 0, and the clock stands at some time.  *)
(***************************************************************************)
InitRead ==
    /\ users \in OneAccount
    /\ initial = users
    /\ issued = {1}
    /\ now \in Times
    /\ env = [FREE_BALANCE_INTERVAL |-> MaxInterval, FREE_BALANCE |-> MaxFree]
    /\ IdleAll

NextRead ==
    \/ \E id \in Ids, ua \in Agents : index(1, id, ua, id)
    \/ index_update_user_agent(1)
    \/ index_get_balance(1)
    \/ \E id \in AnyId : access_existing_balance(1, id)
    \/ access_existing_balance_get_balance(1)
    \/ \E id \in AnyId : utils_get_balance(1, id)
    \/ utils_get_balance_time(1)
    \/ utils_get_balance_award(1)
    \/ utils_get_balance_award_select(1)
    \/ utils_get_balance_stamp(1)
    \/ utils_get_balance_read(1)
    \/ Return(1)

SpecRead == InitRead /\ [][NextRead]_vars

(***************************************************************************)
(* SpecFirst: index requests to app.index and to public.index_route, with   *)
(* and without a cookie, one at a time, on a database that starts empty.    *)
(***************************************************************************)
NextFirst ==
    \/ \E id \in AnyId, ua \in HeaderAgents, fresh \in Ids : index(1, id, ua, fresh)
    \/ \E id \in AnyId, ua \in HeaderAgents, fresh \in Ids :
          index_route(1, id, ua, fresh)
    \/ index_update_user_agent(1)
    \/ index_get_balance(1)
    \/ Return(1)
    \/ Tick

SpecFirst == Init /\ [][NextFirst]_vars

(***************************************************************************)
(* SpecClear: concurrent clear_balance requests (of app.py and of the       *)
(* public blueprint) and use_balance requests, one request per handler, on  *)
(* a table with one account.                                                *)
(***************************************************************************)
NextClear ==
    \E p \in Procs :
        \/ \E id \in AnyId : app_clear_balance(p, id)
        \/ \E id \in AnyId : clear_balance_route(p, id)
        \/ clear_balance_update(p)
        \/ clear_balance_select(p)
        \/ \E id \in AnyId : use_balance(p, id)
        \/ use_balance_update(p)
        \/ use_balance_select(p)

SpecClear == InitMode /\ [][NextClear]_vars

(***************************************************************************)
(* SpecClearAll: concurrent use_balance and clear_all_balances requests,    *)
(* one request per handler, on a table with one account.                    *)
(***************************************************************************)
NextClearAll ==
    \E p \in Procs :
        \/ \E id \in AnyId : use_balance(p, id)
        \/ use_balance_update(p)
        \/ use_balance_select(p)
        \/ clear_all_balances(p)

SpecClearAll == InitConc /\ [][NextClearAll]_vars

(***************************************************************************)
(* SpecFault: one client that calls utils.get_balance and                   *)
(* database.update_balance one after the other while time passes, on a      *)
(* storage that can fail at any statement of update_balance, and a second   *)
(* client that deletes accounts.  The table starts with one account.        *)
(***************************************************************************)
NextFault ==
    \/ \E id \in AnyId : utils_get_balance(1, id)
    \/ utils_get_balance_time(1)
    \/ utils_get_balance_award(1)
    \/ utils_get_balance_award_error(1)
    \/ utils_get_balance_award_select(1)
    \/ utils_get_balance_stamp(1)
    \/ utils_get_balance_read(1)
    \/ \E id \in AnyId, d \in Deltas : update_balance(1, id, d)
    \/ \E id \in AnyId, d \in Deltas : update_balance_error(1, id, d)
    \/ update_balance_select(1)
    \/ update_balance_select_error(1)
    \/ \E id \in AnyId : delete_user_record(2, id)
    \/ \E p \in Procs : Return(p)
    \/ Tick

SpecFault == InitRound /\ [][NextFault]_vars

(***************************************************************************)
(* SpecFrame: one client that calls the reads and updates of database.py,  *)
(* utils.get_balance and the index page with a cookie, one after the other, *)
(* with the uuid that has an account and with uuids that have none.  The    *)
(* table starts with one account, and the clock stands at some time.        *)
(***************************************************************************)
NextFrame ==
    \/ \E id \in AnyId : get_balance(1, id)
    \/ \E id \in AnyId : utils_get_balance(1, id)
    \/ utils_get_balance_time(1)
    \/ utils_get_balance_award(1)
    \/ utils_get_balance_award_select(1)
    \/ utils_get_balance_stamp(1)
    \/ utils_get_balance_read(1)
    \/ \E id \in AnyId : use_balance(1, id)
    \/ use_balance_update(1)
    \/ use_balance_select(1)
    \/ \E id \in AnyId : update_user_agent(1, id, "ua2")
    \/ \E id \in AnyId : update_last_awarded(1, id, now)
    \/ \E id \in Ids : index(1, id, "ua1", id)
    \/ index_update_user_agent(1)
    \/ index_get_balance(1)
    \/ Return(1)

SpecFrame == InitRead /\ [][NextFrame]_vars

TypeOK ==
    /\ DOMAIN users \subseteq Ids
    /\ now \in Times
    /\ \A i \in DOMAIN users : users[i].last_awarded \in Times

(***************************************************************************)
(* Properties of the ledger operations, checked under Spec.                *)
(***************************************************************************)

C7_UpdateUnknownIsNotFound ==
    [][\A p \in Procs, id \in AnyId, d \in Deltas :
          (update_balance(p, id, d) /\ id \notin DOMAIN users) =>
              /\ users' = users
              /\ proc'[p].pc = "done"
              /\ proc'[p].ret = None]_vars

\* C7 witness: a non-zero update_balance on an unknown uuid has returned
\* None while another account is stored.
C7_Witness ==
    \E p \in Procs :
        /\ Done(p, "update_balance")
        /\ proc[p].user_uuid \in Ids
        /\ proc[p].balance_change # 0
        /\ proc[p].pre = EmptyTable
        /\ proc[p].ret = None
        /\ users # EmptyTable

\* C8: database.get_balance returns 0 for a uuid that has no row, the
\* missing uuid included, and changes nothing that is stored.
C8_GetBalanceUnknownIsZero ==
    [][\A p \in Procs, id \in AnyId :
          (get_balance(p, id) /\ id \notin DOMAIN users) =>
              /\ proc'[p].pc = "done"
              /\ proc'[p].ret = Some(0)
              /\ users' = users]_vars

\* C8 witness: get_balance has returned for a well-formed uuid that has no
\* row, while another account with a balance other than 0 is stored.
C8_Witness ==
    \E p \in Procs :
        /\ Done(p, "get_balance")
        /\ proc[p].user_uuid \in Ids
        /\ proc[p].pre = EmptyTable
        /\ \E i \in DOMAIN users : users[i].balance # 0

\* C10: clear_all_balances sets the balance of every row to 0 and leaves
\* the set of rows and each row's uuid, user_agent and last_awarded alone.
C10_ClearAllFrame ==
    [][\A p \in Procs :
          clear_all_balances(p) =>
              /\ DOMAIN users' = DOMAIN users
              /\ \A i \in DOMAIN users :
                    /\ users'[i].balance = 0
                    /\ users'[i].user_agent = users[i].user_agent
                    /\ users'[i].last_awarded = users[i].last_awarded]_vars

\* C10 witness: clear_all_balances has run on a table with two accounts, one
\* of them with a balance other than 0 and a last_awarded other than 0.
C10_Witness ==
    \E p \in Procs :
        /\ Done(p, "clear_all_balances")
        /\ Cardinality(DOMAIN proc[p].pre) = 2
        /\ \E i \in DOMAIN proc[p].pre :
              /\ proc[p].pre[i].balance # 0
              /\ proc[p].pre[i].last_awarded # 0
              /\ i \in DOMAIN users /\ users[i].balance = 0

(***************************************************************************)
(* Properties of concurrent requests.                                      *)
(***************************************************************************)
\* the handlers that run, or have run, operation o on uuid id
Callers(o, id) == {p \in Procs : proc[p].op = o /\ proc[p].user_uuid = id}

\* no handler is between two statements of its request
Quiet == \A p \in Procs : proc[p].pc \in {"idle", "done"}

RECURSIVE SumChange(_)
\* the sum of the balance_change arguments of the handlers in P
SumChange(P) ==
    IF P = {} THEN 0
    ELSE LET p == CHOOSE q \in P : TRUE
         IN proc[p].balance_change + SumChange(P \ {p})

\* C1: with use_balance requests only, on an account that starts with
\* balance B >= 0, the balance never drops below 0 and at most B of the
\* requests return True; with B = 1 and two requests that have both
\* returned, exactly one returned True and the balance is 0.
C1_DebitNeverOverdraws ==
    \A id \in DOMAIN initial :
        LET B == initial[id].balance
            succeeded == {p \in Callers("use_balance", id) :
                             proc[p].pc = "done" /\ proc[p].ret = Some(TRUE)}
        IN  B >= 0 =>
              /\ users[id].balance >= 0
              /\ Cardinality(succeeded) <= B
              /\ ( /\ B = 1
                   /\ Cardinality(Callers("use_balance", id)) = 2
                   /\ Quiet )
                 => (Cardinality(succeeded) = 1 /\ users[id].balance = 0)

\* C2: with update_balance requests only, once every request has returned,
\* the balance of an account is its initial balance plus the sum of the
\* changes of the requests made on it.
C2_NoLostUpdate ==
    \A id \in DOMAIN initial :
        Quiet =>
            users[id].balance =
                initial[id].balance + SumChange(Callers("update_balance", id))

\* C2 witness: two update_balance requests with non-zero changes on one
\* account have returned, and the read-back of one of them saw the update
\* of the other, which was committed after its own.
C2_Witness ==
    \E p, q \in Procs, id \in DOMAIN initial :
        /\ p # q
        /\ Done(p, "update_balance") /\ Done(q, "update_balance")
        /\ proc[p].user_uuid = id /\ proc[q].user_uuid = id
        /\ proc[p].balance_change # 0 /\ proc[q].balance_change # 0
        /\ proc[p].balance_change + proc[q].balance_change # 0
        /\ proc[p].ret = Some(proc[p].pre[id].balance + proc[p].balance_change
                                + proc[q].balance_change)
        /\ proc[q].pre[id].balance = proc[p].pre[id].balance + proc[p].balance_change

\* C3: when every utils.get_balance request on an account was made while
\* the grant was due against the stored last_awarded, the one the account
\* started with, and all of them have returned, the balance has grown by
\* FREE_BALANCE once in total.
C3_OneGrantPerInterval ==
    \A id \in DOMAIN initial :
        LET callers == Callers("utils_get_balance", id)
        IN  ( /\ callers # {}
              /\ env.FREE_BALANCE_INTERVAL > 0
              /\ \A p \in callers :
                    /\ proc[p].pc = "done"
                    /\ proc[p].last_awarded = initial[id].last_awarded
                    /\ GrantDue(proc[p].began, proc[p].last_awarded,
                                env.FREE_BALANCE_INTERVAL) )
            => users[id].balance = initial[id].balance + env.FREE_BALANCE

(***************************************************************************)
(* Properties of one client's calls, one after the other.                  *)
(***************************************************************************)
\* the utils.get_balance call found the grant due
Granted(call) ==
    GrantDue(call.current_time, call.last_awarded, env.FREE_BALANCE_INTERVAL)

\* C4: a utils.get_balance call on a stored account, alone: before the
\* interval has passed it returns the stored balance and leaves the row as
\* it was; from then on it returns balance + FREE_BALANCE, stores that
\* balance and sets last_awarded to the time it read.
C4_GrantOnRead ==
    \A p \in Procs :
        (Done(p, "utils_get_balance") /\ proc[p].user_uuid \in DOMAIN proc[p].pre) =>
            LET id == proc[p].user_uuid
                row == proc[p].pre[id]
                t == proc[p].current_time
            IN  IF t - row.last_awarded < env.FREE_BALANCE_INTERVAL
                THEN /\ proc[p].ret = Some(row.balance)
                     /\ users[id] = row
                ELSE /\ proc[p].ret = Some(row.balance + env.FREE_BALANCE)
                     /\ users[id] = [row EXCEPT !.balance = @ + env.FREE_BALANCE,
                                                !.last_awarded = t]

\* C4 witness: a call has credited a grant other than 0 at a time later than
\* the time the account was created.
C4_Witness ==
    \E p \in Procs :
        /\ Done(p, "utils_get_balance")
        /\ proc[p].user_uuid \in DOMAIN proc[p].pre
        /\ env.FREE_BALANCE > 0
        /\ env.FREE_BALANCE_INTERVAL > 0
        /\ Granted(proc[p])
        /\ users[proc[p].user_uuid].last_awarded = proc[p].current_time

\* the second of two utils.get_balance calls of one client on one stored
\* account has returned, less than the interval after the first
SecondCall(p) ==
    /\ Done(p, "utils_get_balance")
    /\ prev[p].op = "utils_get_balance"
    /\ prev[p].user_uuid = proc[p].user_uuid
    /\ proc[p].user_uuid \in DOMAIN prev[p].pre
    /\ proc[p].user_uuid \in DOMAIN proc[p].pre
    /\ env.FREE_BALANCE_INTERVAL > 0
    /\ proc[p].current_time - prev[p].current_time < env.FREE_BALANCE_INTERVAL

\* C5, as claimed: the second call returns the same balance as the first
\* and changes neither balance nor last_awarded.
C5_SecondCallChangesNothing ==
    \A p \in Procs :
        SecondCall(p) =>
            /\ proc[p].ret = prev[p].ret
            /\ users[proc[p].user_uuid] = proc[p].pre[proc[p].user_uuid]

\* C5, amended: the two calls together credit the grant at most once, and
\* when the first call credited it, the second returns the same balance as
\* the first and changes neither balance nor last_awarded.
C5_AtMostOneGrant ==
    \A p \in Procs :
        SecondCall(p) =>
            LET id == proc[p].user_uuid
            IN  /\ ~(Granted(prev[p]) /\ Granted(proc[p]))
                /\ users[id].balance <= prev[p].pre[id].balance + env.FREE_BALANCE
                /\ Granted(prev[p]) =>
                      /\ proc[p].ret = prev[p].ret
                      /\ users[id] = proc[p].pre[id]

\* C5 witness: the first call credited a grant other than 0 and the second
\* call has returned within the interval.
C5_Witness ==
    \E p \in Procs :
        /\ SecondCall(p)
        /\ Granted(prev[p])
        /\ env.FREE_BALANCE > 0
        /\ proc[p].current_time > prev[p].current_time

\* C9: update_balance(id, d) followed by update_balance(id, -d), d # 0, on a
\* stored account leaves the balance as it was before the two calls.
C9_RoundTrip ==
    \A p \in Procs :
        ( /\ Done(p, "update_balance")
          /\ prev[p].op = "update_balance"
          /\ prev[p].user_uuid = proc[p].user_uuid
          /\ proc[p].user_uuid \in DOMAIN prev[p].pre
          /\ prev[p].balance_change # 0
          /\ proc[p].balance_change = -prev[p].balance_change )
        => /\ proc[p].user_uuid \in DOMAIN users
           /\ users[proc[p].user_uuid].balance
                 = prev[p].pre[proc[p].user_uuid].balance

\* C9 witness: update_balance(id, +MaxAmount) and then update_balance(id,
\* -MaxAmount) have both returned a balance.
C9_Witness ==
    \E p \in Procs :
        /\ Done(p, "update_balance")
        /\ prev[p].op = "update_balance"
        /\ prev[p].user_uuid = proc[p].user_uuid
        /\ proc[p].user_uuid \in DOMAIN prev[p].pre
        /\ prev[p].balance_change = MaxAmount
        /\ proc[p].balance_change = -MaxAmount
        /\ prev[p].ret = Some(prev[p].pre[proc[p].user_uuid].balance + MaxAmount)
        /\ proc[p].ret = Some(prev[p].pre[proc[p].user_uuid].balance)

(***************************************************************************)
(* Properties of the purchase catalog and of purchases.                    *)
(***************************************************************************)
\* the coupon code is in the coupon catalog
CouponExists(coupon_code, e) ==
    \E i \in 1..Len(e.COUPONS) :
        Len(e.COUPONS[i]) = 2 /\ e.COUPONS[i][1] = coupon_code

\* the pack is in the pack catalog and takes the coupon code
CouponApplicable(coupon_code, balance_pack, e) ==
    /\ balance_pack \in DOMAIN parse_purchase_packs(e.PURCHASE_PACKS)
    /\ coupon_code \in
          parse_purchase_packs(e.PURCHASE_PACKS)[balance_pack].applicable_coupons

\* a call of either validate_coupon has returned
ValidateCouponDone(p) ==
    Done(p, "validate_coupon") \/ Done(p, "utils_utils_validate_coupon")

\* C11: validate_coupon returns (True, the discount of the coupon) exactly
\* when the code is in the coupon catalog and the pack is in the pack
\* catalog and takes the code; otherwise it returns (False, 0).
C11_ValidExactlyWhenApplicable ==
    \A p \in Procs :
        ValidateCouponDone(p) =>
            IF /\ CouponExists(proc[p].coupon_code, env)
               /\ CouponApplicable(proc[p].coupon_code, proc[p].balance_pack, env)
            THEN /\ proc[p].is_valid
                 /\ proc[p].discount
                       = parse_coupons(env.COUPONS)[proc[p].coupon_code].discount
            ELSE /\ ~proc[p].is_valid
                 /\ proc[p].discount = 0

\* a purchase in development mode has credited the account
Purchased(p) ==
    /\ Done(p, "buy_balance")
    /\ proc[p].ret = Some("added")

\* the size of the pack the request of handler p names
PackSize(p) == parse_purchase_packs(env.PURCHASE_PACKS)[proc[p].balance_pack].size

\* C12: a successful purchase in development mode of a pack of size S with
\* discount d, 0 <= d <= 100 (0 without a coupon), raises the balance of the
\* account by S - floor(S * d / 100).
C12_CreditIsSizeLessFlooredDiscount ==
    \A p \in Procs :
        (Purchased(p) /\ 0 <= proc[p].discount /\ proc[p].discount <= 100) =>
            LET id == proc[p].user_uuid
                S == PackSize(p)
                d == proc[p].discount
            IN  users[id].balance
                    = proc[p].pre[id].balance + (S - ((S * d) \div 100))

\* C13: whatever pack and coupon the catalogs hold, the credit of a purchase
\* is not below 0: no purchase request leaves an account with less than it
\* had.
C13_CreditNeverNegative ==
    \A p \in Procs :
        proc[p].op = "buy_balance" =>
            /\ proc[p].balance_to_add >= 0
            /\ \A id \in DOMAIN proc[p].pre :
                  users[id].balance >= proc[p].pre[id].balance

\* the request names no pack, or a pack that is not in the catalog `packs`
UnknownPack(balance_pack, packs) ==
    balance_pack = "" \/ balance_pack \notin DOMAIN packs

\* the request carries a coupon code that is no coupon or that the pack does
\* not take
BadCoupon(coupon_code, balance_pack, e) ==
    /\ coupon_code # ""
    /\ ~(CouponExists(coupon_code, e) /\ CouponApplicable(coupon_code, balance_pack, e))

\* C14: a purchase request with a missing or unknown pack, or with a coupon
\* code that is unknown or not applicable to the pack, ends in its first
\* step with the users table as it was when the request came in; the
\* request to the public blueprint ends so with any coupon code.
C14_RejectedBeforeMutation ==
    \A p \in Procs :
        /\ ( /\ proc[p].op = "buy_balance"
             /\ \/ UnknownPack(proc[p].balance_pack,
                               parse_purchase_packs(env.PURCHASE_PACKS))
                \/ BadCoupon(proc[p].coupon_code, proc[p].balance_pack, env) )
           => (proc[p].pc = "done" /\ users = proc[p].pre)
        /\ ( /\ proc[p].op = "buy_balance_route"
             /\ \/ UnknownPack(proc[p].balance_pack,
                               get_purchase_packs(env.purchase_packs))
                \/ proc[p].coupon_code # "" )
           => (proc[p].pc = "done" /\ users = proc[p].pre)

\* C14 witness: in development mode a purchase of a pack of the catalog, for
\* a stored account, was turned down for a coupon code that is a coupon but
\* not one the pack takes.
C14_Witness ==
    \E p \in Procs :
        /\ Done(p, "buy_balance")
        /\ proc[p].ret = Some("invalid coupon")
        /\ env.FLASK_ENV = "development"
        /\ proc[p].user_uuid \in DOMAIN users
        /\ ~UnknownPack(proc[p].balance_pack, parse_purchase_packs(env.PURCHASE_PACKS))
        /\ CouponExists(proc[p].coupon_code, env)
        /\ ~CouponApplicable(proc[p].coupon_code, proc[p].balance_pack, env)
        /\ users = proc[p].pre

(***************************************************************************)
(* Properties of the fingerprint and of deletion.                          *)
(***************************************************************************)
\* handler p runs the statement of update_user_agent in this step, as the
\* whole of database.update_user_agent or as the step of index
UpdatesUserAgent(p) ==
    \/ index_update_user_agent(p)
    \/ \E id \in AnyId, ua \in Agents : update_user_agent(p, id, ua)

\* C15: update_user_agent, called alone or by index for a fingerprint that
\* does not match, leaves the set of accounts, the balance and last_awarded
\* of every account, and the whole row of every account but the named one
\* as they were.
C15_FingerprintFrame ==
    [][\A p \in Procs :
          UpdatesUserAgent(p) =>
              /\ DOMAIN users' = DOMAIN users
              /\ \A i \in DOMAIN users :
                    /\ users'[i].balance = users[i].balance
                    /\ users'[i].last_awarded = users[i].last_awarded
                    /\ i # proc'[p].user_uuid => users'[i] = users[i]]_vars

\* C15 witness: an index request with a cookie has replaced the stored
\* fingerprint of an account with a balance other than 0 by the hash of the
\* stripped header, while another account is stored.
C15_Witness ==
    \E p \in Procs :
        /\ Done(p, "index")
        /\ proc[p].user_uuid \in DOMAIN proc[p].pre
        /\ Cardinality(DOMAIN users) = 2
        /\ users[proc[p].user_uuid].user_agent
              # proc[p].pre[proc[p].user_uuid].user_agent
        /\ users[proc[p].user_uuid].user_agent
              = hash_user_agent(Strip(proc[p].user_agent))
        /\ proc[p].user_agent # Strip(proc[p].user_agent)
        /\ users[proc[p].user_uuid].balance # 0

\* C16: after delete_user_record(id) the users table has no row of id: on
\* that table get_balance(id) is 0, get_user_agent(id) is None,
\* update_balance(id, d) finds no row and changes nothing, and the balance
\* check of use_balance(id) fails; every other row is as it was.  After
\* delete_all_user_records the table has no row.
C16_DeleteIsPhysical ==
    [][\A p \in Procs :
          /\ \A id \in Ids :
                delete_user_record(p, id) =>
                    /\ id \notin DOMAIN users'
                    /\ DbGetBalance(users', id) = 0
                    /\ DbGetUserAgent(users', id) = None
                    /\ \A d \in Deltas :
                          /\ ~UbCommitted(users', id, d)
                          /\ UbTable(users', id, d) = users'
                    /\ ~(DbGetBalance(users', id) > 0)
                    /\ DOMAIN users' = (DOMAIN users) \ {id}
                    /\ \A i \in DOMAIN users' : users'[i] = users[i]
          /\ delete_all_user_records(p) => DOMAIN users' = {}]_vars

\* C16 witness: delete_user_record has removed an account with a balance
\* other than 0 while another account stays stored.
C16_Witness ==
    \E p \in Procs :
        /\ Done(p, "delete_user_record")
        /\ proc[p].user_uuid \in DOMAIN proc[p].pre
        /\ proc[p].pre[proc[p].user_uuid].balance # 0
        /\ proc[p].user_uuid \notin DOMAIN users
        /\ users # EmptyTable

\* C17: outside development mode the requests that clear a balance or
\* delete an account leave the users table as it was: with those requests
\* only, the table stays the one the service started with.
C17_NoClearOrDeleteInProduction ==
    ~Development => users = initial

\* C18: generate_uuid does not return a uuid unless its INSERT stored the
\* record: when it has returned uuid id, no row of id was there before the
\* call, and the row of id holds the starting balance that was passed.
C18_NoIdWithoutStoredRecord ==
    \A p \in Procs :
        (Done(p, "generate_uuid") /\ proc[p].ret # None) =>
            LET id == TheVal(proc[p].ret)
            IN  /\ id \notin DOMAIN proc[p].pre
                /\ id \in DOMAIN users
                /\ users[id].balance = proc[p].balance

\* the UPDATE of the use_balance request of handler p was committed
Debited(p) ==
    /\ proc[p].op = "use_balance"
    /\ \/ proc[p].pc = "select"
       \/ proc[p].pc = "done" /\ proc[p].updated_balance # None

\* C19: with use_balance requests only, the balance of an account is what
\* it started with less 1 for every request whose UPDATE was committed; a
\* request returns True only if its own UPDATE was committed, and a request
\* that read a balance <= 0, or that names no stored account, returns False
\* and committed nothing.
C19_SuccessOnlyIfDebited ==
    /\ DOMAIN users = DOMAIN initial
    /\ \A id \in DOMAIN initial :
          users[id] = [initial[id] EXCEPT !.balance =
              @ - Cardinality({p \in Callers("use_balance", id) : Debited(p)})]
    /\ \A p \in Procs :
          Done(p, "use_balance") =>
              /\ proc[p].ret = Some(TRUE) => Debited(p)
              /\ (proc[p].balance <= 0 \/ proc[p].user_uuid \notin DOMAIN initial)
                    => (proc[p].ret = Some(FALSE) /\ ~Debited(p))

\* C19 witness: of two use_balance requests on an account that started with
\* balance 1, one read 1, debited and returned True, the other read 0 and
\* returned False.
C19_Witness ==
    \E p, q \in Procs, id \in DOMAIN initial :
        /\ initial[id].balance = 1
        /\ Done(p, "use_balance") /\ Done(q, "use_balance")
        /\ proc[p].user_uuid = id /\ proc[q].user_uuid = id
        /\ proc[p].balance = 1 /\ proc[p].ret = Some(TRUE)
        /\ proc[q].balance = 0 /\ proc[q].ret = Some(FALSE)
        /\ users[id].balance = 0

(***************************************************************************)
(* Properties of the helpers of utils.py.                                  *)
(***************************************************************************)
\* the client's utils.get_balance call has returned, its call before was
\* add_balance_manually(id, N) with N > 0 on the same stored account, and
\* the balance was read less than the interval after the last_awarded of
\* the account, which for a new account is the time it was created
ReadAfterManualAdd(p) ==
    /\ Done(p, "utils_get_balance")
    /\ prev[p].op = "add_balance_manually"
    /\ prev[p].user_uuid = proc[p].user_uuid
    /\ proc[p].user_uuid \in DOMAIN prev[p].pre
    /\ prev[p].balance_change > 0
    /\ proc[p].current_time - prev[p].pre[proc[p].user_uuid].last_awarded
          < env.FREE_BALANCE_INTERVAL

\* C20: add_balance_manually(id, N), N > 0, on an account with balance S,
\* as generate_uuid creates it, and then utils.get_balance(id) within the
\* interval: get_balance returns S + N.
C20_ManualAddThenRead ==
    \A p \in Procs :
        ReadAfterManualAdd(p) =>
            proc[p].ret = Some(prev[p].pre[proc[p].user_uuid].balance
                                  + prev[p].balance_change)

\* C20 witness: on a database that started empty, an account created by
\* generate_uuid got MaxAmount added and get_balance, called later than the
\* creation and within the interval, returned the sum; nothing was granted.
C20_Witness ==
    \E p \in Procs :
        /\ ReadAfterManualAdd(p)
        /\ initial = EmptyTable
        /\ proc[p].user_uuid \in issued
        /\ prev[p].balance_change = MaxAmount
        /\ proc[p].current_time > prev[p].pre[proc[p].user_uuid].last_awarded
        /\ proc[p].ret = Some(prev[p].pre[proc[p].user_uuid].balance + MaxAmount)
        /\ users[proc[p].user_uuid].last_awarded
              = prev[p].pre[proc[p].user_uuid].last_awarded

(***************************************************************************)
(* Properties of the requests that show a balance.                         *)
(***************************************************************************)
\* handler p has shown the balance of a stored account to its client
BalanceServed(p) ==
    /\ proc[p].op \in {"index", "access_existing_balance", "utils_get_balance"}
    /\ proc[p].pc = "done"
    /\ proc[p].user_uuid \in DOMAIN proc[p].pre
    /\ proc[p].op = "utils_get_balance" \/ proc[p].ret \in {Some("index.html"), Some("index")}

\* C21: a request that shows the balance of an account for which the grant
\* was due when the request came in has credited FREE_BALANCE and shows the
\* balance with the grant.
C21_ReadEvaluatesGrant ==
    \A p \in Procs :
        ( /\ BalanceServed(p)
          /\ GrantDue(proc[p].began, proc[p].pre[proc[p].user_uuid].last_awarded,
                      env.FREE_BALANCE_INTERVAL) )
        => LET id == proc[p].user_uuid
           IN  /\ users[id].balance = proc[p].pre[id].balance + env.FREE_BALANCE
               /\ proc[p].balance = users[id].balance

\* C22: an index request without a cookie stores exactly one new account,
\* with balance 10, and answers with the page that carries its id.
C22_FirstContactCreatesOneAccount ==
    [][\A ua \in Agents, fresh \in Ids :
          (index(1, NoId, ua, fresh) \/ index_route(1, NoId, ua, fresh))
          => LET id == proc'[1].user_uuid
             IN  /\ proc'[1].ret \in {Some("index.html"), Some("public.html")}
                 /\ id \notin DOMAIN users
                 /\ DOMAIN users' = DOMAIN users \cup {id}
                 /\ users'[id].balance = 10]_vars

(***************************************************************************)
(* Properties of database.update_balance.                                  *)
(***************************************************************************)
\* C23: an update_balance request made on its own returns None exactly when
\* no account has the uuid; on a stored account it returns the old balance
\* plus the change, which is then the stored balance, for every change, 0
\* included.
C23_UpdateBalanceEveryDelta ==
    \A p \in Procs :
        Done(p, "update_balance") =>
            LET id == proc[p].user_uuid
            IN  IF id \in DOMAIN proc[p].pre
                THEN /\ proc[p].ret = Some(proc[p].pre[id].balance + proc[p].balance_change)
                     /\ users[id].balance = proc[p].pre[id].balance + proc[p].balance_change
                ELSE proc[p].ret = None

\* C24: the balance an update_balance request returns is the balance its own
\* UPDATE produced, the balance it found plus its change, whatever the other
\* requests do between its commit and its read-back.
C24_ReturnsOwnUpdate ==
    \A p \in Procs :
        (Done(p, "update_balance") /\ proc[p].ret # None) =>
            proc[p].ret = Some(proc[p].pre[proc[p].user_uuid].balance
                                 + proc[p].balance_change)

(***************************************************************************)
(* Properties of concurrent clear and debit requests.                      *)
(***************************************************************************)
\* C25: with clear_balance and use_balance requests on an account that
\* starts with a balance >= 0, the balance is never negative, and the
\* update of a clear_balance request leaves it at exactly 0.
C25_ClearLeavesZero ==
    /\ [](\A id \in DOMAIN users : users[id].balance >= 0)
    /\ [][\A p \in Procs :
             (clear_balance_update(p) /\ proc[p].user_uuid \in DOMAIN users)
             => users'[proc[p].user_uuid].balance = 0]_vars

\* C26: while at most one use_balance request was made on an account that
\* started with a balance >= 0, and any number of clear_all_balances
\* requests, the balance is never negative; once such a use_balance request
\* and a clear_all_balances request have both returned, the balance is 0.
C26_DebitAndClearAll ==
    \A id \in DOMAIN initial :
        Cardinality(Callers("use_balance", id)) <= 1 =>
            /\ users[id].balance >= 0
            /\ ( /\ Quiet
                 /\ \E p \in Procs : Done(p, "clear_all_balances") )
               => users[id].balance = 0

(***************************************************************************)
(* Properties of the grant stamp.                                          *)
(***************************************************************************)
\* C27: no step of concurrent utils.get_balance requests lowers the
\* last_awarded of an account.
C27_LastAwardedNeverDecreases ==
    [][\A id \in DOMAIN users \cap DOMAIN users' :
          users'[id].last_awarded >= users[id].last_awarded]_vars

\* C28: a utils.get_balance request that has changed the last_awarded of an
\* account has also raised its balance by FREE_BALANCE.
C28_StampOnlyWithCredit ==
    \A p \in Procs :
        LET id == proc[p].user_uuid
        IN  ( /\ proc[p].op = "utils_get_balance"
              /\ proc[p].pc \in {"read", "done"}
              /\ id \in DOMAIN proc[p].pre
              /\ id \in DOMAIN users
              /\ users[id].last_awarded # proc[p].pre[id].last_awarded )
            => users[id].balance = proc[p].pre[id].balance + env.FREE_BALANCE

\* C30: an update_balance request that returns None has changed nothing: it
\* returns None from its first half, which committed no UPDATE, and never
\* after its UPDATE was committed.
C30_NoneMeansUnchanged ==
    [][\A p \in Procs :
          ( /\ proc[p].pc # "done"
            /\ proc'[p].pc = "done"
            /\ proc'[p].op = "update_balance"
            /\ proc'[p].ret = None )
          => (proc[p].pc = "idle" /\ users' = users)]_vars

(***************************************************************************)
(* Properties of the set of accounts.                                      *)
(***************************************************************************)
\* the operations that read or update and never create
FrameOps == {"get_balance", "utils_get_balance", "use_balance",
             "update_user_agent", "update_last_awarded", "index"}

\* C29: a step of get_balance, utils.get_balance, use_balance,
\* update_user_agent, update_last_awarded or of an index request with a
\* cookie leaves the set of stored uuids as it is, also for a uuid without
\* an account, and utils.get_balance returns 0 for such a uuid.
C29_OnlyCreateAddsAccounts ==
    [][\A p \in Procs :
          (proc'[p] # proc[p] /\ proc'[p].op \in FrameOps)
          => /\ DOMAIN users' = DOMAIN users
             /\ ( /\ Done(p, "utils_get_balance")'
                  /\ proc'[p].user_uuid \notin DOMAIN users )
                => proc'[p].ret = Some(0)]_vars

\* C29 witness: next to a stored account, utils.get_balance was called with
\* a uuid that has no account when the grant was due, ran its UPDATEs and
\* returned 0, and the uuid still has no account.
C29_Witness ==
    /\ Done(1, "utils_get_balance")
    /\ users # EmptyTable
    /\ proc[1].user_uuid \in Ids \ DOMAIN users
    /\ GrantDue(proc[1].current_time, 0, env.FREE_BALANCE_INTERVAL)
    /\ proc[1].ret = Some(0)

=============================================================================
